---- MODULE Spec2Model ----
(***************************************************************************)
(* Two React implementations of Snake.                                     *)
(*   canvas variant : src/unnamed/part_000      (snake head = last cell)   *)
(*   DOM variant    : src/snake-game-claude/src/App.jsx (head = first)     *)
(* One behaviour of the model is one mounted component; `variant` says     *)
(* which.  An action is one event handler or timer callback together with  *)
(* the React render and the effects that follow it.  Speed is kept in      *)
(* tenths of a move per second.  The grid is scaled down from 20 x 20.     *)
(***************************************************************************)
EXTENDS Integers, Sequences, FiniteSets

\* ---- bounds of the model ------------------------------------------------
\* cells per side (20 in both programs); no advance grows the snake beyond
\* MaxLen cells; Math.random() ranges over multiples of 1 / RandomDenominator
GridSize == 2
MaxLen == 4
RandomDenominator == 2

\* ---- program constants (speed in tenths) --------------------------------
InitialSpeed == 80
SpeedStep == 3
MaxSpeed == 200
MinSpeed == 20
CanvasReward == 1
DomReward == 10

VARIABLES
    variant,        \* "canvas" | "dom"
    snake, food, direction, score,                      \* state of both
    dirRef, running, speed, highScore, wrapWalls,       \* canvas
    stored, storageOk,                                  \* canvas localStorage: item (-1 = none), usable
    loopFood, loopWrapWalls, loopScore,                 \* values closed over by the running loop
    directionRef, gameOver, isPlaying, gameMode,        \* DOM
    loopGameMode, hung,                                 \* DOM
    dead,           \* history: a collision ended the game and no reset followed
    last,           \* history: what the last step did
    quiet,          \* history: the player has stopped giving input
    quietTicks      \* history: firings of the tick source since then

shared == <<snake, food, direction, score>>
canvasVars == <<dirRef, running, speed, highScore, wrapWalls, stored, storageOk, loopWrapWalls, loopScore>>
domVars == <<directionRef, gameOver, isPlaying, gameMode, loopGameMode, hung>>
quietVars == <<quiet, quietTicks>>
vars == <<variant, shared, canvasVars, domVars, loopFood, dead, last, quietVars>>

\* ---- cells, directions, keys --------------------------------------------
Coords == 0 .. (GridSize - 1)
Cells == Coords \X Coords
NoDir == <<0, 0>>
Up == <<0, -1>>
Down == <<0, 1>>
Left == <<-1, 0>>
Right == <<1, 0>>
Dirs == {Up, Down, Left, Right}
Opp(d) == <<0 - d[1], 0 - d[2]>>
Add(c, d) == <<c[1] + d[1], c[2] + d[2]>>
Range(s) == {s[i] : i \in 1 .. Len(s)}
Max(a, b) == IF a >= b THEN a ELSE b
Min(a, b) == IF a <= b THEN a ELSE b
NoDup(s) == \A i, j \in 1 .. Len(s) : i # j => s[i] # s[j]
OutOfGrid(c) == c[1] < 0 \/ c[1] >= GridSize \/ c[2] < 0 \/ c[2] >= GridSize
WrapCoordNone(v) == v
WrapCoord(v) == IF v < 0 THEN GridSize - 1 ELSE IF v >= GridSize THEN 0 ELSE v
WrapCell(c) == <<WrapCoord(c[1]), WrapCoord(c[2])>>

Keys == {"ArrowUp", "ArrowDown", "ArrowLeft", "ArrowRight", "w", "s", "a", "d", "W", " ", "Spacebar"}

\* canvas key table; NoDir stands for "no entry"
map(key) ==
    CASE key \in {"ArrowUp", "w"} -> Up
      [] key \in {"ArrowDown", "s"} -> Down
      [] key \in {"ArrowLeft", "a"} -> Left
      [] key \in {"ArrowRight", "d"} -> Right
      [] OTHER -> NoDir

\* e.key.toLowerCase() on the keys above
ToLowerCase(key) ==
    CASE key = "ArrowUp" -> "arrowup"
      [] key = "ArrowDown" -> "arrowdown"
      [] key = "ArrowLeft" -> "arrowleft"
      [] key = "ArrowRight" -> "arrowright"
      [] key = "W" -> "w"
      [] key = "Spacebar" -> "spacebar"
      [] OTHER -> key

\* ---- canvas: pure helpers -----------------------------------------------
StartSnake == << <<(GridSize \div 2) - 1, GridSize \div 2>>, <<GridSize \div 2, GridSize \div 2>> >>

\* the grid in the order of the two nested loops, x outer, y inner
GridOrder == [i \in 1 .. (GridSize * GridSize) |-> <<(i - 1) \div GridSize, (i - 1) % GridSize>>]
IsFreeAlways(snakeArr, c) == TRUE
IsFree(snakeArr, c) == c \notin Range(snakeArr)
FreeList(snakeArr) == SelectSeq(GridOrder, LAMBDA c : IsFree(snakeArr, c))

\* Math.random() takes the values n / RandomDenominator, 0 <= n < RandomDenominator
RandomNumerators == 0 .. (RandomDenominator - 1)
\* Math.floor(Math.random() * len), as a 1-based index
FloorRandom(n, len) == ((n * len) \div RandomDenominator) + 1

\* every value randomFoodPosition can return: free[Math.floor(Math.random() *
\* free.length)], or the fixed corner when the list is empty
randomFoodPosition(snakeArr) ==
    IF Len(FreeList(snakeArr)) = 0
    THEN {<<0, 0>>}
    ELSE {FreeList(snakeArr)[FloorRandom(n, Len(FreeList(snakeArr)))] : n \in RandomNumerators}

\* Number(localStorage.getItem(...) || 0), 0 when the read throws
LoadHighScore(item, ok) == IF ok /\ item >= 0 THEN item ELSE 0
StoredAtStart == {-1, 1}

\* slider positions tried by the model (the control offers 2.0 .. 20.0)
SliderValues == {MinSpeed, MaxSpeed}

\* the self-collision test of moveSnake
collideSelfOff(curSnake, newHead) == FALSE
collideSelf(curSnake, newHead) == \E i \in 1 .. Len(curSnake) : curSnake[i] = newHead

\* setSpeed((s) => Math.min(20, s + 0.3))
SpeedUpNoCap(s) == s + SpeedStep
SpeedUp(s) == Min(MaxSpeed, s + SpeedStep)

\* setSpeed(8) of resetGame
SpeedAfterResetKept(s) == s
SpeedAfterReset(s) == InitialSpeed

\* curSnake.shift() of the no-food branch: the oldest cell, the tail, goes
shiftNone(curSnake) == curSnake
shift(curSnake) == Tail(curSnake)

\* the updater of setScore in the food branch
setScoreUpdaterTwice(s) == s + 2 * CanvasReward
setScoreUpdater(s) == s + CanvasReward

\* head of the canvas snake and the cell moveSnake computes from it
HeadC == snake[Len(snake)]
RawHeadC == Add(HeadC, dirRef)
NewHeadC == IF loopWrapWalls THEN WrapCell(RawHeadC) ELSE RawHeadC

\* the effect with dependency [speed]: the loop is rebuilt, and closes over
\* the values of the new render, only when speed changed
LoopEffect ==
    IF speed' # speed
    THEN /\ loopFood' = food'
         /\ loopWrapWalls' = wrapWalls'
         /\ loopScore' = score'
    ELSE UNCHANGED <<loopFood, loopWrapWalls, loopScore>>

\* history kept by every firing of the tick source
TickCounted ==
    /\ quietTicks' = IF quiet THEN Min(quietTicks + 1, GridSize + 1) ELSE quietTicks
    /\ UNCHANGED quiet

\* ---- canvas: actions ----------------------------------------------------
InitCanvas ==
    /\ variant = "canvas"
    /\ quiet = FALSE
    /\ quietTicks = 0
    /\ snake = StartSnake
    /\ direction = Right
    /\ dirRef = Right
    /\ food \in randomFoodPosition(StartSnake)
    /\ running = FALSE
    /\ speed = InitialSpeed
    /\ score = 0
    /\ stored \in StoredAtStart
    /\ storageOk \in BOOLEAN
    /\ highScore = LoadHighScore(stored, storageOk)
    /\ wrapWalls = TRUE
    /\ loopFood = food
    /\ loopWrapWalls = wrapWalls
    /\ loopScore = score
    /\ directionRef = Right
    /\ gameOver = FALSE
    /\ isPlaying = FALSE
    /\ gameMode = "walls"
    /\ loopGameMode = "walls"
    /\ hung = FALSE
    /\ dead = FALSE
    /\ last = "init"

\* endGame as called from the loop's moveSnake: `score` is the closed-over one
endGame(why) ==
    /\ running' = FALSE
    /\ highScore' = Max(highScore, loopScore)
    /\ stored' = IF storageOk THEN highScore' ELSE stored
    /\ dead' = TRUE
    /\ last' = why
    /\ UNCHANGED <<snake, food, score, speed, storageOk>>

\* one firing of tick() that is due; moveSnake and the render after it
moveSnake ==
    /\ IF ~loopWrapWalls /\ OutOfGrid(RawHeadC)
       THEN endGame("wall")
       ELSE IF collideSelf(snake, NewHeadC)
       THEN endGame("self")
       ELSE IF NewHeadC = loopFood
       THEN /\ Len(snake) < MaxLen
            /\ snake' = Append(snake, NewHeadC)
            /\ score' = setScoreUpdater(score)
            /\ food' \in randomFoodPosition(Append(snake, NewHeadC))
            /\ speed' = SpeedUp(speed)
            /\ last' = "eat"
            /\ UNCHANGED <<running, highScore, stored, storageOk, dead>>
       ELSE /\ snake' = shift(Append(snake, NewHeadC))
            /\ last' = "move"
            /\ UNCHANGED <<food, score, speed, running, highScore, stored, storageOk, dead>>
    /\ UNCHANGED <<variant, direction, dirRef, wrapWalls, domVars>>
    /\ LoopEffect

\* the test of tick(): runningRef.current, and a move is due
tickDueAlways == TRUE
tickDue == running

\* one animation frame: tick() moves the snake or does nothing
Tick ==
    /\ variant = "canvas"
    /\ TickCounted
    /\ IF tickDue
       THEN moveSnake
       ELSE /\ last' = "idle"
            /\ UNCHANGED <<variant, shared, canvasVars, domVars, loopFood, dead>>

\* the reversal test shared by handleKey and turn
RequestStarts(nd) ==
    /\ direction' = nd
    /\ dirRef' = nd
    /\ running' = TRUE
    /\ last' = "dir"
Request(nd) ==
    /\ IF dirRef[1] + nd[1] = 0 /\ dirRef[2] + nd[2] = 0
       THEN UNCHANGED <<direction, dirRef>>
       ELSE /\ direction' = nd
            /\ dirRef' = nd
    /\ last' = "dir"
    /\ UNCHANGED running

ToggleRunning ==
    /\ running' = ~running
    /\ last' = "ui"
    /\ UNCHANGED <<direction, dirRef>>

handleKey ==
    /\ variant = "canvas"
    /\ UNCHANGED quietVars
    /\ \E key \in Keys :
          IF key = " " \/ key = "Spacebar"
          THEN ToggleRunning
          ELSE IF map(key) # NoDir
          THEN Request(map(key))
          ELSE last' = "ui" /\ UNCHANGED <<direction, dirRef, running>>
    /\ UNCHANGED <<variant, snake, food, score, speed, highScore, wrapWalls, stored, storageOk,
                   loopFood, loopWrapWalls, loopScore, domVars, dead>>

\* the four arrow buttons
turn ==
    /\ variant = "canvas"
    /\ UNCHANGED quietVars
    /\ \E d \in Dirs : Request(d)
    /\ UNCHANGED <<variant, snake, food, score, speed, highScore, wrapWalls, stored, storageOk,
                   loopFood, loopWrapWalls, loopScore, domVars, dead>>

\* the Start/Pause button and the centre button of the pad
StartPauseButton ==
    /\ variant = "canvas"
    /\ UNCHANGED quietVars
    /\ ToggleRunning
    /\ UNCHANGED <<variant, snake, food, score, speed, highScore, wrapWalls, stored, storageOk,
                   loopFood, loopWrapWalls, loopScore, domVars, dead>>

resetGame ==
    /\ variant = "canvas"
    /\ UNCHANGED quietVars
    /\ snake' = StartSnake
    /\ dirRef' = Right
    /\ direction' = Right
    /\ food' \in randomFoodPosition(StartSnake)
    /\ score' = 0
    /\ speed' = SpeedAfterReset(speed)
    /\ running' = FALSE
    /\ dead' = FALSE
    /\ last' = IF last \in {"reset", "reset2"} THEN "reset2" ELSE "reset"
    /\ UNCHANGED <<variant, highScore, wrapWalls, stored, storageOk, domVars>>
    /\ LoopEffect

WallsButton ==
    /\ variant = "canvas"
    /\ UNCHANGED quietVars
    /\ wrapWalls' = ~wrapWalls
    /\ last' = "ui"
    /\ UNCHANGED <<variant, shared, dirRef, running, speed, highScore, stored, storageOk,
                   loopFood, loopWrapWalls, loopScore, domVars, dead>>

ClearHighButton ==
    /\ variant = "canvas"
    /\ UNCHANGED quietVars
    /\ score' = 0
    /\ highScore' = 0
    /\ stored' = IF storageOk THEN -1 ELSE stored
    /\ last' = "ui"
    /\ UNCHANGED <<variant, snake, food, direction, dirRef, running, speed, wrapWalls, storageOk,
                   loopFood, loopWrapWalls, loopScore, domVars, dead>>

SpeedSlider ==
    /\ variant = "canvas"
    /\ UNCHANGED quietVars
    /\ \E v \in SliderValues : v # speed /\ speed' = v
    /\ last' = "ui"
    /\ UNCHANGED <<variant, shared, dirRef, running, highScore, wrapWalls, stored, storageOk,
                   domVars, dead>>
    /\ LoopEffect

CanvasNext ==
    \/ Tick
    \/ handleKey
    \/ turn
    \/ StartPauseButton
    \/ resetGame
    \/ WallsButton
    \/ ClearHighButton
    \/ SpeedSlider

SpecCanvas == InitCanvas /\ [][CanvasNext]_vars

\* ---- DOM: pure helpers --------------------------------------------------
\* INITIAL_SNAKE [(10,10)] and the fixed food (15,15) of the 20 x 20 grid,
\* kept at the same relative places on the scaled grid
InitialCoord == GridSize \div 2
InitialSnake == << <<InitialCoord, InitialCoord>> >>
InitialFoodCoord == (InitialCoord + Max(1, GridSize \div 4)) % GridSize
InitialFood == <<InitialFoodCoord, InitialFoodCoord>>

\* the test of the do-while loop of generateFood
OnSnake(currentSnake, newFood) == \E i \in 1 .. Len(currentSnake) : currentSnake[i] = newFood

\* every value generateFood can return: the loop draws cells until one is off
\* the snake; the empty set means the loop never ends
generateFood(currentSnake) == {c \in Cells : ~OnSnake(currentSnake, c)}

\* the self-collision test of the interval callback
SelfCollision(prevSnake, newHead) == \E i \in 1 .. Len(prevSnake) : prevSnake[i] = newHead

\* newSnake.pop() of the no-food branch: the last cell, the tail, goes
pop(newSnake) == SubSeq(newSnake, 1, Len(newSnake) - 1)

HeadD == snake[1]
RawHeadD == Add(HeadD, directionRef)
NewHeadD == IF loopGameMode = "walls" THEN RawHeadD ELSE WrapCell(RawHeadD)

\* the effect with dependencies [isPlaying, gameOver, food]
DomLoopEffect ==
    IF isPlaying' # isPlaying \/ gameOver' # gameOver \/ food' # food
    THEN /\ loopFood' = food'
         /\ loopGameMode' = gameMode'
    ELSE UNCHANGED <<loopFood, loopGameMode>>

\* the keys handleKeyPress tests for, after toLowerCase
DirectionKeys == {"arrowup", "w", "arrowdown", "s", "arrowleft", "a", "arrowright", "d"}

\* ---- DOM: actions -------------------------------------------------------
InitDom ==
    /\ variant = "dom"
    /\ quiet = FALSE
    /\ quietTicks = 0
    /\ snake = InitialSnake
    /\ food = InitialFood
    /\ direction = Right
    /\ directionRef = Right
    /\ gameOver = FALSE
    /\ score = 0
    /\ isPlaying = FALSE
    /\ gameMode = "walls"
    /\ loopFood = food
    /\ loopGameMode = gameMode
    /\ hung = FALSE
    /\ dirRef = Right
    /\ running = FALSE
    /\ speed = InitialSpeed
    /\ highScore = 0
    /\ wrapWalls = TRUE
    /\ stored = -1
    /\ storageOk = TRUE
    /\ loopWrapWalls = TRUE
    /\ loopScore = 0
    /\ dead = FALSE
    /\ last = "init"

GameOverDom(why) ==
    /\ gameOver' = TRUE
    /\ isPlaying' = FALSE
    /\ dead' = TRUE
    /\ last' = why
    /\ UNCHANGED <<snake, food, score, hung>>

\* one firing of the interval: the setSnake updater, setDirection, the render
gameLoop ==
    /\ variant = "dom"
    /\ TickCounted
    /\ isPlaying /\ ~gameOver /\ ~hung
    /\ IF loopGameMode = "walls" /\ OutOfGrid(RawHeadD)
       THEN GameOverDom("wall") /\ direction' = directionRef
       ELSE IF SelfCollision(snake, NewHeadD)
       THEN GameOverDom("self") /\ direction' = directionRef
       ELSE IF NewHeadD = loopFood
       THEN /\ Len(snake) < MaxLen
            /\ IF generateFood(<<NewHeadD>> \o snake) = {}
               THEN /\ hung' = TRUE
                    /\ last' = "hang"
                    /\ UNCHANGED <<snake, food, score, direction>>
               ELSE /\ score' = score + DomReward
                    /\ food' \in generateFood(<<NewHeadD>> \o snake)
                    /\ snake' = <<NewHeadD>> \o snake
                    /\ direction' = directionRef
                    /\ last' = "eat"
                    /\ UNCHANGED hung
            /\ UNCHANGED <<gameOver, isPlaying, dead>>
       ELSE /\ snake' = pop(<<NewHeadD>> \o snake)
            /\ direction' = directionRef
            /\ last' = "move"
            /\ UNCHANGED <<food, score, gameOver, isPlaying, dead, hung>>
    /\ UNCHANGED <<variant, directionRef, gameMode, canvasVars>>
    /\ DomLoopEffect

handleKeyPress ==
    /\ variant = "dom"
    /\ UNCHANGED quietVars
    /\ ~hung
    /\ \E key \in Keys :
       /\ IF ~isPlaying \/ gameOver
          THEN UNCHANGED directionRef
          ELSE IF ToLowerCase(key) \in {"arrowup", "w"} /\ directionRef[2] = 0
          THEN directionRef' = Up
          ELSE IF ToLowerCase(key) \in {"arrowdown", "s"} /\ directionRef[2] = 0
          THEN directionRef' = Down
          ELSE IF ToLowerCase(key) \in {"arrowleft", "a"} /\ directionRef[1] = 0
          THEN directionRef' = Left
          ELSE IF ToLowerCase(key) \in {"arrowright", "d"} /\ directionRef[1] = 0
          THEN directionRef' = Right
          ELSE UNCHANGED directionRef
       /\ last' = IF ToLowerCase(key) \in DirectionKeys THEN "dir" ELSE "ui"
    /\ UNCHANGED <<variant, shared, canvasVars, gameOver, isPlaying, gameMode,
                   loopGameMode, hung, loopFood, dead>>

\* Start Game / Play Again; one of the two buttons is shown iff not playing
resetGameDom ==
    /\ variant = "dom"
    /\ UNCHANGED quietVars
    /\ ~hung
    /\ ~isPlaying
    /\ snake' = InitialSnake
    /\ food' = InitialFood
    /\ direction' = Right
    /\ directionRef' = Right
    /\ gameOver' = FALSE
    /\ score' = 0
    /\ isPlaying' = TRUE
    /\ dead' = FALSE
    /\ last' = "reset"
    /\ UNCHANGED <<variant, canvasVars, gameMode, hung>>
    /\ DomLoopEffect

\* the two mode buttons, disabled while playing
setGameMode ==
    /\ variant = "dom"
    /\ UNCHANGED quietVars
    /\ ~hung
    /\ ~isPlaying
    /\ \E m \in {"walls", "pass-through"} : gameMode' = m
    /\ last' = "ui"
    /\ UNCHANGED <<variant, shared, canvasVars, directionRef, gameOver, isPlaying,
                   loopGameMode, hung, loopFood, dead>>

DomNext ==
    \/ gameLoop
    \/ handleKeyPress
    \/ resetGameDom
    \/ setGameMode

SpecDom == InitDom /\ [][DomNext]_vars

\* ---- both variants ------------------------------------------------------
Init == InitCanvas \/ InitDom
Next == CanvasNext \/ DomNext
Spec == Init /\ [][Next]_vars

\* ---- the player stops giving input -------------------------------------
\* from some moment on the player touches nothing; the animation frames and
\* the interval keep firing
StopInput ==
    /\ ~quiet
    /\ quiet' = TRUE
    /\ quietTicks' = 0
    /\ UNCHANGED <<variant, shared, canvasVars, domVars, loopFood, dead, last>>

NextQuiet ==
    \/ Tick
    \/ gameLoop
    \/ StopInput
    \/ (~quiet /\ handleKey)
    \/ (~quiet /\ turn)
    \/ (~quiet /\ StartPauseButton)
    \/ (~quiet /\ resetGame)
    \/ (~quiet /\ WallsButton)
    \/ (~quiet /\ ClearHighButton)
    \/ (~quiet /\ SpeedSlider)
    \/ (~quiet /\ handleKeyPress)
    \/ (~quiet /\ resetGameDom)
    \/ (~quiet /\ setGameMode)

SpecQuiet == Init /\ [][NextQuiet]_vars /\ WF_vars(Tick) /\ WF_vars(gameLoop)

\* ---- vocabulary of the properties ---------------------------------------
Over == IF variant = "dom" THEN gameOver ELSE dead
IsRunning == IF variant = "dom" THEN isPlaying /\ ~gameOver ELSE running
Solid == IF variant = "dom" THEN gameMode = "walls" ELSE ~wrapWalls
Pending == IF variant = "dom" THEN directionRef ELSE dirRef
HeadOf(s) == IF variant = "dom" THEN s[1] ELSE s[Len(s)]
TailOf(s) == IF variant = "dom" THEN s[Len(s)] ELSE s[1]
RawHead == Add(HeadOf(snake), Pending)
\* the snake moved one cell forward without growing, new head h
Translated(s, h) ==
    IF variant = "dom" THEN SubSeq(<<h>> \o s, 1, Len(s)) ELSE Tail(Append(s, h))
StartOf == IF variant = "dom" THEN InitialSnake ELSE StartSnake
HasFreeCell(s) == Cardinality(Range(s)) < GridSize * GridSize
\* the step just taken was a completed advance / a reset / a placement of food
Advanced == last \in {"move", "eat", "wall", "self"}
WasReset == last \in {"reset", "reset2"}
FoodPlaced == last \in {"init", "eat", "reset", "reset2"}

\* C1: while the game is not over the snake has no two equal cells, and the
\* snake always has at least one cell.
C1_NoSelfOverlap == (~Over => NoDup(snake)) /\ Len(snake) >= 1
\* a live snake of three or more cells that has just advanced
C1_Witness == ~Over /\ Len(snake) >= 3 /\ last \in {"move", "eat"}

\* C2: an advance that does not grow and whose new head is the current tail
\* cell is not a self-collision: the game stays running and the snake is
\* translated by one cell.
C2_TailCellIsFree ==
    [][(Advanced' /\ ~OutOfGrid(RawHead) /\ RawHead = TailOf(snake) /\ RawHead # food
        /\ Len(snake) >= 2)
       => (IsRunning' /\ snake' = Translated(snake, RawHead))]_vars

\* C3: the direction an advance applies is never the opposite of the one the
\* previous advance of the same game applied (DOM variant, where `direction`
\* holds the direction of the previous advance once the snake has moved).
C3_NoReversal ==
    [][(Advanced' /\ variant = "dom" /\ snake # InitialSnake)
       => directionRef # Opp(direction)]_vars

\* C4: an advance that puts the head on the current Food cell consumes it,
\* and an advance that puts the head on any other cell leaves Food unchanged.
C4_FoodRegenOnlyOnEat ==
    [][(last' \in {"move", "eat"})
       => IF HeadOf(snake') = food THEN last' = "eat" ELSE food' = food]_vars

\* C5 as stated: whenever Food is placed, it is on no snake cell, for every
\* snake including one that fills the grid.
C5_FoodNeverOnSnake == FoodPlaced => \A i \in 1 .. Len(snake) : snake[i] # food
\* C5 amended: whenever Food is placed while some cell is free of the snake,
\* it is on no snake cell.
C5_FoodOffSnakeIfFree ==
    (FoodPlaced /\ HasFreeCell(snake)) => \A i \in 1 .. Len(snake) : snake[i] # food
\* food placed after a consumption, next to a grown snake that leaves room
C5_Witness == last = "eat" /\ Len(snake) >= 3 /\ HasFreeCell(snake)

\* C6: in the canvas variant, when endGame runs HighScore becomes the larger
\* of the previous HighScore and the current Score, and a working store
\* holds that value.
C6_HighScoreIsMax ==
    [][(variant = "canvas" /\ last' \in {"wall", "self"})
       => (highScore' = Max(highScore, score) /\ (storageOk => stored' = highScore'))]_vars

\* C7: once the game is over it is not running until a reset.
C7_OverStaysOver == Over => ~IsRunning

C9_SolidWallEnds ==
    [][(Advanced' /\ Solid /\ OutOfGrid(RawHead))
       => (Over' /\ ~IsRunning' /\ snake' = snake /\ food' = food /\ score' = score)]_vars

\* C10: in Wrap mode an advance whose new head leaves the grid puts the head
\* on the opposite edge and, unless that cell is a snake cell, the game
\* keeps running.
C10_WrapCrossing ==
    [][(Advanced' /\ ~Solid /\ OutOfGrid(RawHead) /\ WrapCell(RawHead) \notin Range(snake))
       => (IsRunning' /\ HeadOf(snake') = WrapCell(RawHead))]_vars

\* C11: between two resets no step makes Score smaller.
C11_ScoreNonDecreasing == [][~WasReset' => score' >= score]_vars

\* C15: every canvas advance whose new head leaves the grid applies the wall
\* policy that WallMode shows at that moment: in Solid mode the game ends
\* with the snake unchanged, in Wrap mode the head goes to the opposite edge
\* unless that cell is a snake cell.
C15_WallPolicyIsCurrent ==
    [][(Advanced' /\ variant = "canvas" /\ OutOfGrid(RawHead))
       => IF wrapWalls
          THEN WrapCell(RawHead) \notin Range(snake) => HeadOf(snake') = WrapCell(RawHead)
          ELSE dead' /\ snake' = snake]_vars

\* C16: food regeneration always returns, and on a grid the grown snake
\* fills it returns the fixed fallback cell.
C16_FoodRegenTerminates ==
    /\ ~hung
    /\ (last = "eat" /\ ~HasFreeCell(snake)) => food = <<0, 0>>

\* C19: every snake cell and the Food cell have both coordinates in
\* 0 .. GridSize - 1.
C19_CellsInGrid ==
    /\ \A i \in 1 .. Len(snake) : ~OutOfGrid(snake[i])
    /\ ~OutOfGrid(food)
\* a snake whose head has just crossed an edge of the grid and was wrapped
\* (after an advance the pending direction is the one it applied)
C19_Witness ==
    /\ last \in {"move", "eat"}
    /\ Len(snake) >= 2
    /\ LET neck == IF variant = "dom" THEN snake[2] ELSE snake[Len(snake) - 1]
       IN  OutOfGrid(Add(neck, Pending)) /\ HeadOf(snake) = WrapCell(Add(neck, Pending))

\* the reward of one food in each variant
Reward == IF variant = "dom" THEN DomReward ELSE CanvasReward

\* C12: every advance leaves the Snake length unchanged or raises it by one,
\* and raises it exactly when the advance consumes food.
C12_LengthStep ==
    [][Advanced' => Len(snake') = Len(snake) + (IF last' = "eat" THEN 1 ELSE 0)]_vars
\* a snake that has grown twice
C12_Witness == last = "eat" /\ Len(snake) = Len(StartOf) + 2

\* C13: an advance in which the snake grows adds the variant's reward to
\* Score, and every other advance leaves Score unchanged.
C13_ScoreStep ==
    [][Advanced' => score' = score + (IF Len(snake') = Len(snake) + 1 THEN Reward ELSE 0)]_vars
\* the second reward of a session has just been added
C13_Witness == last = "eat" /\ score = 2 * Reward

\* C20: in the canvas variant speed is always within MinSpeed .. MaxSpeed,
\* a food consumption raises it by SpeedStep up to MaxSpeed, and a reset
\* returns it to InitialSpeed.
C20_SpeedBounded ==
    /\ [](variant = "canvas" => speed \in MinSpeed .. MaxSpeed)
    /\ [][(variant = "canvas" /\ last' = "eat") => speed' = Min(MaxSpeed, speed + SpeedStep)]_vars
    /\ [][(variant = "canvas" /\ WasReset') => speed' = InitialSpeed]_vars
\* food consumed while speed is at the cap
C20_Witness == variant = "canvas" /\ last = "eat" /\ speed = MaxSpeed

\* the last step was a firing of the tick source
TickFired == last \in {"move", "eat", "wall", "self", "hang", "idle"}

\* C17: an advance happens only in a Running state, and a firing of the tick
\* source in a state that is not Running leaves Snake, Food, Score, Speed and
\* HighScore unchanged.
C17_AdvanceOnlyWhileRunning ==
    [][/\ Advanced' => IsRunning
       /\ (TickFired' /\ ~IsRunning) => UNCHANGED <<snake, food, score, speed, highScore>>]_vars
\* the tick source has fired after the game ended and before any restart
C17_Witness == last = "idle" /\ Over /\ ~IsRunning

\* the last step was a direction request: a direction key or a turn button
Requested == last = "dir"

\* C14: a direction request, accepted or rejected, leaves Snake, Food, Score,
\* Speed, WallMode, HighScore and Phase unchanged.
C14_RequestFrame ==
    [][Requested' => UNCHANGED <<snake, food, score, speed, wrapWalls, gameMode, highScore,
                                 running, isPlaying, gameOver, dead>>]_vars
\* a direction request made in the middle of a running game
C14_Witness == Requested /\ IsRunning /\ score > 0

\* C18: when reading the store throws HighScore starts at 0; when writing it
\* throws in endGame the game still stops running and HighScore becomes
\* max(HighScore, Score), with Snake, Food and Score unchanged.
C18_StoreFailuresSwallowed ==
    /\ []((variant = "canvas" /\ ~storageOk /\ last = "init") => highScore = 0)
    /\ [][(variant = "canvas" /\ ~storageOk /\ last' \in {"wall", "self"})
          => /\ ~running'
             /\ highScore' = Max(highScore, score)
             /\ UNCHANGED <<snake, food, score>>]_vars

\* C21: once input has stopped in a Running state whose WallMode is Solid,
\* the game is over after at most GridSize firings of the tick source.
C21_SolidGameEnds ==
    /\ (quiet /\ IsRunning /\ Solid) ~> (Over /\ ~IsRunning)
    /\ []((quiet /\ IsRunning /\ Solid) => quietTicks < GridSize)

====
